---- MODULE Spec2Model ----
(***************************************************************************)
(* Model of the recommendation core of qwipo_backend: the in-memory        *)
(* SimpleCache (cache.py), the content-based, collaborative and hybrid     *)
(* rankers of EnhancedRecommendationEngine (recommendation_engine.py) and  *)
(* the relational store they read (models.py).                             *)
(*                                                                         *)
(* Conventions.  An Optional value is a sequence: None is <<>> and a       *)
(* present value v is <<v>>.  Scores that the code computes in float64 are *)
(* kept as integers: cosine similarities in fixed point (SimScale), the    *)
(* rank scores and the blend as exact rationals over a common denominator. *)
(***************************************************************************)
EXTENDS Integers, Sequences, FiniteSets, TLC

\* ---------------------------------------------------------------- bounds
MaxProducts == 3
MaxEvents == 2
MaxLimit == 2
MaxTicks == 2
MaxThreads == 2
TickStep == 1900

\* ------------------------------------------------------ program constants
CbfTtl == 3600
CfTtl == 1800
CandidateLimit == 50
SeedLimit == 5

\* fixed-point scale of a cosine similarity (1.0 is SimScale)
SimScale == 1000
\* alpha is carried in tenths: 0.6 is 6, 1.0 is AlphaOne
AlphaOne == 10

VARIABLES
    products,      \* table products, in the order the store scans it
    purchases,     \* table purchase_history, oldest event first
    dbUp,          \* FALSE: every db.execute raises
    _cache,        \* SimpleCache._cache
    _timestamps,   \* SimpleCache._timestamps
    now,           \* time.time()
    resp,          \* the request being answered: its arguments and its result
    threads,       \* position and locals of each thread inside SimpleCache
    missed         \* observer: keys whose expiry a get reported, not set since

vars == <<products, purchases, dbUp, _cache, _timestamps, now, resp, threads, missed>>

\* ---------------------------------------------------------------- helpers
None == <<>>
Some(v) == <<v>>

Max(a, b) == IF a >= b THEN a ELSE b
Min(a, b) == IF a <= b THEN a ELSE b

Range(s) == {s[i] : i \in 1..Len(s)}

Take(s, n) == SubSeq(s, 1, Min(n, Len(s)))

Reverse(s) == [i \in 1..Len(s) |-> s[Len(s) + 1 - i]]

RemoveAt(s, i) == SubSeq(s, 1, i - 1) \o SubSeq(s, i + 1, Len(s))

Restrict(f, S) == [x \in S |-> f[x]]

RECURSIVE SumOver(_, _)
SumOver(S, f) ==
    IF S = {} THEN 0
    ELSE LET x == CHOOSE y \in S : TRUE
         IN f[x] + SumOver(S \ {x}, f)

\* the elements of a set of integers, ascending
RECURSIVE Ascending(_)
Ascending(S) ==
    IF S = {} THEN <<>>
    ELSE LET m == CHOOSE x \in S : \A y \in S : x <= y
         IN <<m>> \o Ascending(S \ {m})

\* floor of the square root, by bisection on lo..hi
RECURSIVE ISqrtIn(_, _, _)
ISqrtIn(x, lo, hi) ==
    IF lo >= hi THEN lo
    ELSE LET mid == (lo + hi + 1) \div 2
         IN IF mid * mid <= x THEN ISqrtIn(x, mid, hi) ELSE ISqrtIn(x, lo, mid - 1)

\* stable sort, descending by key: equal keys keep their order in s
RECURSIVE SortDescStable(_, _)
SortDescStable(s, key) ==
    IF s = <<>> THEN <<>>
    ELSE LET best == CHOOSE i \in 1..Len(s) :
                        \A j \in 1..Len(s) :
                            \/ key[s[i]] > key[s[j]]
                            \/ key[s[i]] = key[s[j]] /\ i <= j
         IN <<s[best]>> \o SortDescStable(RemoveAt(s, best), key)

\* stable sort, ascending by key
RECURSIVE SortAscStable(_, _)
SortAscStable(s, key) ==
    IF s = <<>> THEN <<>>
    ELSE LET best == CHOOSE i \in 1..Len(s) :
                        \A j \in 1..Len(s) :
                            \/ key[s[i]] < key[s[j]]
                            \/ key[s[i]] = key[s[j]] /\ i <= j
         IN <<s[best]>> \o SortAscStable(RemoveAt(s, best), key)

\* ------------------------------------------------------------------ store
ProductIds == 1..MaxProducts
\* the buyers that send requests
Buyers == {1, 2}

\* products.category; with the id-specific name term below it is the
\* text the CBF builder concatenates for a product
Category(id) == IF id = 1 THEN "oils" ELSE "grains"

\* the terms of a product's document: its category and its own name
ProductText(id) == {<<"category", Category(id)>>, <<"name", ToString(id)>>}

\* products.created_at: a product with a larger id was catalogued later
CreatedAt(id) == id

\* db.execute(...): raises when the store cannot be read
CanRead == dbUp

\* SELECT id, name, ... FROM products WHERE is_active = 1
FetchActiveProducts == SelectSeq(products, LAMBDA r : r.is_active)

\* SELECT user_id, product_id, SUM(quantity) ... GROUP BY user_id, product_id:
\* the set of groups, and the summed quantity of a group
PurchaseGroups == {<<purchases[i].user_id, purchases[i].product_id>> : i \in 1..Len(purchases)}

SumQuantity(u, p) ==
    LET idx == {i \in 1..Len(purchases) :
                    purchases[i].user_id = u /\ purchases[i].product_id = p}
    IN SumOver(idx, [i \in idx |-> purchases[i].quantity])

\* SELECT * FROM products WHERE id IN (ids): the rows come in the order of
\* the store's scan, not in the order of the IN list; _format_products keeps
\* that order and turns each row into a dict, of which the id is kept here
FetchProductsByIds(ids) ==
    LET rows == SelectSeq(products, LAMBDA r : r.id \in Range(ids))
    IN [i \in 1..Len(rows) |-> rows[i].id]

\* SELECT product_id FROM purchase_history WHERE user_id = :uid
\* ORDER BY purchased_at DESC LIMIT 5
FetchRecentPurchases(uid) ==
    LET mine == SelectSeq(purchases, LAMBDA e : e.user_id = uid)
        newestFirst == Reverse(mine)
        top == Take(newestFirst, SeedLimit)
    IN [i \in 1..Len(top) |-> top[i].product_id]

\* COUNT(ph.id) of the LEFT JOIN: the number of purchase events of a product
PurchaseCount(p) == Cardinality({i \in 1..Len(purchases) : purchases[i].product_id = p})

\* get_popular_products: active products ORDER BY purchase_count DESC,
\* created_at DESC LIMIT :limit; every failure is caught and gives []
get_popular_products(limit) ==
    IF ~CanRead THEN <<>>
    ELSE LET rows == FetchActiveProducts
             ids == [i \in 1..Len(rows) |-> rows[i].id]
             byCreated == SortDescStable(ids, [p \in Range(ids) |-> CreatedAt(p)])
             byCount == SortDescStable(byCreated, [p \in Range(ids) |-> PurchaseCount(p)])
         IN Take(byCount, limit)

\* ------------------------------------------------------------ SimpleCache
\* The cache is the pair of dicts; the operators below take and return it
\* as a record [c |-> _cache, t |-> _timestamps].
CacheState == [c |-> _cache, t |-> _timestamps]

EmptyCache == [c |-> <<>>, t |-> <<>>]

\* SimpleCache.delete that forgets `del self._cache[key]`
Delete_keepsValue(st, key) ==
    [c |-> st.c,
     t |-> Restrict(st.t, DOMAIN st.t \ {key})]

\* SimpleCache.delete
Delete(st, key) ==
    [c |-> Restrict(st.c, DOMAIN st.c \ {key}),
     t |-> Restrict(st.t, DOMAIN st.t \ {key})]

\* the expiry test of SimpleCache.get and cleanup_expired
Expired(info, time) == time - info.created > info.ttl

\* SimpleCache.get that reports the expiry without calling self.delete(key)
Get_hidesExpired(st, key, time) ==
    IF key \in DOMAIN st.c
    THEN IF key \in DOMAIN st.t /\ Expired(st.t[key], time)
         THEN [ret |-> None, st |-> st]
         ELSE [ret |-> Some(st.c[key]), st |-> st]
    ELSE [ret |-> None, st |-> st]

\* SimpleCache.get: the value returned and the cache it leaves
Get(st, key, time) ==
    IF key \in DOMAIN st.c
    THEN IF key \in DOMAIN st.t /\ Expired(st.t[key], time)
         THEN [ret |-> None, st |-> Delete(st, key)]
         ELSE [ret |-> Some(st.c[key]), st |-> st]
    ELSE [ret |-> None, st |-> st]

\* SimpleCache.set
Set(st, key, value, ttl, time) ==
    [c |-> [k \in DOMAIN st.c \cup {key} |-> IF k = key THEN value ELSE st.c[k]],
     t |-> [k \in DOMAIN st.t \cup {key} |->
                IF k = key THEN [created |-> time, ttl |-> ttl] ELSE st.t[k]]]

\* SimpleCache.clear that forgets `self._timestamps.clear()`
Clear_keepsTimestamps(st) == [c |-> <<>>, t |-> st.t]

\* SimpleCache.clear
Clear(st) == EmptyCache

\* SimpleCache.cleanup_expired
CleanupExpired(st, time) ==
    LET live == {k \in DOMAIN st.t : ~Expired(st.t[k], time)}
        gone == DOMAIN st.t \ live
    IN [c |-> Restrict(st.c, DOMAIN st.c \ gone), t |-> Restrict(st.t, live)]

\* ------------------------------------------------------------ similarity
\* cosine_similarity of two vectors with inner product dot and squared
\* norms nnA and nnB, in fixed point; a zero vector has similarity 0
CosineFixed(dot, nnA, nnB) ==
    IF nnA = 0 \/ nnB = 0 THEN 0
    ELSE ISqrtIn((dot * dot * SimScale * SimScale) \div (nnA * nnB), 0, SimScale)

\* the result of a ranker or builder call: how it ended, what it returned,
\* the cache it left, and the store reads and cache writes it performed
Result(status, path, out, ranked, st, reads, writes) ==
    [status |-> status, path |-> path, out |-> out, ranked |-> ranked,
     st |-> st, reads |-> reads, writes |-> writes, dbg |-> <<>>, data |-> None]

\* ------------------------------------------- content-based filtering (CBF)
_cbf_cache_key == "cbf_matrix_v1"
_cf_cache_key == "cf_item_sim_v1"

\* the artifact of _build_cbf_matrix: the data frame of the active products
\* (row order as fetched); the TF-IDF row of a product is its term set
CbfArtifact(rows) ==
    [df |-> [i \in 1..Len(rows) |-> [id |-> rows[i].id, text |-> ProductText(rows[i].id)]]]

\* _build_cbf_matrix that rebuilds on every call, the cached artifact ignored
_build_cbf_matrix_uncached(st) ==
    LET rows == FetchActiveProducts
    IN IF ~CanRead
       THEN [status |-> "raise", data |-> None, st |-> st, reads |-> 1, writes |-> 0]
       ELSE IF rows = <<>>
       THEN [status |-> "ok", data |-> None, st |-> st, reads |-> 1, writes |-> 0]
       ELSE [status |-> "ok", data |-> Some(CbfArtifact(rows)),
             st |-> Set(st, _cbf_cache_key, CbfArtifact(rows), CbfTtl, now),
             reads |-> 1, writes |-> 1]

\* _build_cbf_matrix: data is None or the artifact
_build_cbf_matrix(st) ==
    LET cached == Get(st, _cbf_cache_key, now)
    IN IF cached.ret # None
       THEN [status |-> "ok", data |-> cached.ret, st |-> cached.st, reads |-> 0, writes |-> 0]
       ELSE IF ~CanRead
       THEN [status |-> "raise", data |-> None, st |-> cached.st, reads |-> 1, writes |-> 0]
       ELSE LET rows == FetchActiveProducts
            IN IF rows = <<>>
               THEN [status |-> "ok", data |-> None, st |-> cached.st, reads |-> 1, writes |-> 0]
               ELSE LET result == CbfArtifact(rows)
                    IN [status |-> "ok", data |-> Some(result),
                        st |-> Set(cached.st, _cbf_cache_key, result, CbfTtl, now),
                        reads |-> 1, writes |-> 1]

\* cosine_similarity(matrix[idx], matrix): the score of every row of df
\* against the anchor row
CbfScores(df, idx) ==
    [id \in {df[i].id : i \in 1..Len(df)} |->
        LET j == CHOOSE k \in 1..Len(df) : df[k].id = id
        IN CosineFixed(Cardinality(df[idx].text \cap df[j].text),
                       Cardinality(df[idx].text), Cardinality(df[j].text))]

\* nlargest over the whole df, the anchor row not filtered out
CbfTopIds_withAnchor(df, product_id, limit) ==
    LET idx == CHOOSE k \in 1..Len(df) : df[k].id = product_id
        ids == [i \in 1..Len(df) |-> df[i].id]
    IN Take(SortDescStable(ids, CbfScores(df, idx)), limit)

\* df[df["id"] != product_id].nlargest(limit, "score")["id"]: the first of
\* equal scores is the one that comes first in df
CbfTopIds(df, product_id, limit) ==
    LET idx == CHOOSE k \in 1..Len(df) : df[k].id = product_id
        others == SelectSeq(df, LAMBDA r : r.id # product_id)
        ids == [i \in 1..Len(others) |-> others[i].id]
    IN Take(SortDescStable(ids, CbfScores(df, idx)), limit)

\* get_content_based_recommendations
get_content_based_recommendations(st, product_id, limit) ==
    LET b == _build_cbf_matrix(st)
    IN IF b.status = "raise"
       THEN Result("raise", "build", <<>>, <<>>, b.st, b.reads, b.writes)
       ELSE IF b.data = None
       THEN Result("ok", "empty", <<>>, <<>>, b.st, b.reads, b.writes)
       ELSE LET df == b.data[1].df
            IN IF \A k \in 1..Len(df) : df[k].id # product_id
               THEN Result("ok", "empty", <<>>, <<>>, b.st, b.reads, b.writes)
               ELSE LET top_ids == CbfTopIds(df, product_id, limit)
                    IN IF top_ids = <<>>
                       THEN Result("ok", "empty", <<>>, <<>>, b.st, b.reads, b.writes)
                       ELSE IF ~CanRead
                       THEN Result("raise", "hydrate", <<>>, top_ids, b.st, b.reads + 1, b.writes)
                       ELSE Result("ok", "ranked", FetchProductsByIds(top_ids), top_ids,
                                   b.st, b.reads + 1, b.writes)

\* ------------------------------------------ collaborative filtering (CF)
\* -inf: below every score (scores are sums of non-negative terms)
NegInf == 0 - 1

\* a pivot table with a row, all zero, for every buyer without a purchase
CfArtifact_zeroRows ==
    LET items == {g[2] : g \in PurchaseGroups}
        users == Buyers
        pivot == [u \in users |-> [p \in items |->
                    IF <<u, p>> \in PurchaseGroups THEN SumQuantity(u, p) ELSE 0]]
        dot(i, j) == SumOver(users, [u \in users |-> pivot[u][i] * pivot[u][j]])
    IN [item_ids |-> Ascending(items),
        pivot |-> pivot,
        item_sim |-> [i \in items |-> [j \in items |->
                        CosineFixed(dot(i, j), dot(i, i), dot(j, j))]]]

\* the artifact of _build_cf_item_similarity: the pivot table (users by
\* items, summed quantity, 0 where the user never bought the item), the
\* item ids in column order and the item-by-item cosine similarity
CfArtifact ==
    LET items == {g[2] : g \in PurchaseGroups}
        users == {g[1] : g \in PurchaseGroups}
        pivot == [u \in users |-> [p \in items |->
                    IF <<u, p>> \in PurchaseGroups THEN SumQuantity(u, p) ELSE 0]]
        dot(i, j) == SumOver(users, [u \in users |-> pivot[u][i] * pivot[u][j]])
    IN [item_ids |-> Ascending(items),
        pivot |-> pivot,
        item_sim |-> [i \in items |-> [j \in items |->
                        CosineFixed(dot(i, j), dot(i, i), dot(j, j))]]]

\* _build_cf_item_similarity that caches the empty artifact before it
\* returns None
_build_cf_item_similarity_cachesEmpty(st) ==
    LET cached == Get(st, _cf_cache_key, now)
    IN IF cached.ret # None
       THEN [status |-> "ok", data |-> cached.ret, st |-> cached.st, reads |-> 0, writes |-> 0]
       ELSE IF ~CanRead
       THEN [status |-> "raise", data |-> None, st |-> cached.st, reads |-> 1, writes |-> 0]
       ELSE IF purchases = <<>>
       THEN [status |-> "ok", data |-> None,
             st |-> Set(cached.st, _cf_cache_key, CfArtifact, CfTtl, now),
             reads |-> 1, writes |-> 1]
       ELSE LET result == CfArtifact
            IN [status |-> "ok", data |-> Some(result),
                st |-> Set(cached.st, _cf_cache_key, result, CfTtl, now),
                reads |-> 1, writes |-> 1]

\* _build_cf_item_similarity: data is None or the artifact
_build_cf_item_similarity(st) ==
    LET cached == Get(st, _cf_cache_key, now)
    IN IF cached.ret # None
       THEN [status |-> "ok", data |-> cached.ret, st |-> cached.st, reads |-> 0, writes |-> 0]
       ELSE IF ~CanRead
       THEN [status |-> "raise", data |-> None, st |-> cached.st, reads |-> 1, writes |-> 0]
       ELSE IF purchases = <<>>
       THEN [status |-> "ok", data |-> None, st |-> cached.st, reads |-> 1, writes |-> 0]
       ELSE LET result == CfArtifact
            IN [status |-> "ok", data |-> Some(result),
                st |-> Set(cached.st, _cf_cache_key, result, CfTtl, now),
                reads |-> 1, writes |-> 1]

\* scores = user_vector @ item_sim, then -inf for the items already bought
CfScores(data, user_id) ==
    LET items == Range(data.item_ids)
        v == data.pivot[user_id]
    IN [j \in items |->
          IF v[j] > 0 THEN NegInf
          ELSE SumOver(items, [i \in items |-> v[i] * data.item_sim[i][j]])]

\* np.argsort(scores)[::-1][:limit], then the ids with a finite score
CfRecIds(data, user_id, limit) ==
    LET scores == CfScores(data, user_id)
        top_idx == Take(Reverse(SortAscStable(data.item_ids, scores)), limit)
    IN SelectSeq(top_idx, LAMBDA i : scores[i] # NegInf)

\* get_collaborative_recommendations
get_collaborative_recommendations(st, user_id, limit) ==
    LET b == _build_cf_item_similarity(st)
    IN IF b.status = "raise"
       THEN Result("raise", "build", <<>>, <<>>, b.st, b.reads, b.writes)
       ELSE IF b.data = None
       THEN Result("ok", "popular", get_popular_products(limit), <<>>, b.st, b.reads + 1, b.writes)
       ELSE IF user_id \notin DOMAIN b.data[1].pivot
       THEN Result("ok", "popular", get_popular_products(limit), <<>>, b.st, b.reads + 1, b.writes)
       ELSE LET rec_ids == CfRecIds(b.data[1], user_id, limit)
            IN IF rec_ids = <<>>
               THEN Result("ok", "popular", get_popular_products(limit), <<>>,
                           b.st, b.reads + 1, b.writes)
               ELSE IF ~CanRead
               THEN Result("raise", "hydrate", <<>>, rec_ids, b.st, b.reads + 1, b.writes)
               ELSE Result("ok", "ranked", FetchProductsByIds(rec_ids), rec_ids,
                           b.st, b.reads + 1, b.writes)

\* ------------------------------------------------------- hybrid (CBF + CF)
\* cf_rank: the dict of (len(cf_list) - i) / max(1, len(cf_list)) over the
\* 0-based positions i of cf_list, as numerators over the denominator CfDen
CfDen(cf_list) == Max(1, Len(cf_list))

CfRank(cf_list) ==
    [p \in Range(cf_list) |->
        LET i == CHOOSE k \in 1..Len(cf_list) : cf_list[k] = p
        IN Len(cf_list) - (i - 1)]

\* one pass of the inner loop over sims: cbf_scores[p] = max(old, (50 - rank) / 50),
\* as numerators over the denominator CandidateLimit
CbfMerge(cbf_scores, sims) ==
    [p \in DOMAIN cbf_scores \cup Range(sims) |->
        LET old == IF p \in DOMAIN cbf_scores THEN cbf_scores[p] ELSE 0
            new == IF p \in Range(sims)
                   THEN CandidateLimit - ((CHOOSE k \in 1..Len(sims) : sims[k] = p) - 1)
                   ELSE 0
        IN Max(old, new)]

\* the loop over the seeds: each seed calls get_content_based_recommendations
\* with limit 50 on the cache the previous call left; a raise ends the loop
RECURSIVE CbfExpand(_, _, _, _, _)
\* the body of the loop after the call on one seed returned r
CbfExpandStep(r, rest, cbf_scores, reads, writes) ==
    IF r.status = "raise"
    THEN [status |-> "raise", st |-> r.st, cbf_scores |-> cbf_scores,
          reads |-> reads + r.reads, writes |-> writes + r.writes]
    ELSE CbfExpand(rest, r.st, CbfMerge(cbf_scores, r.out),
                   reads + r.reads, writes + r.writes)

CbfExpand(seeds, st, cbf_scores, reads, writes) ==
    IF seeds = <<>>
    THEN [status |-> "ok", st |-> st, cbf_scores |-> cbf_scores, reads |-> reads, writes |-> writes]
    ELSE CbfExpandStep(get_content_based_recommendations(st, Head(seeds), CandidateLimit),
                       Tail(seeds), cbf_scores, reads, writes)

\* the common denominator of the blended scores of one call
BlendDen(cfDen) == AlphaOne * cfDen * CandidateLimit

\* the blend with the two weights exchanged
BlendedScore_swapped(alpha, cfNum, cfDen, cbfNum) ==
    (AlphaOne - alpha) * cfNum * CandidateLimit + alpha * cbfNum * cfDen

\* score = alpha * cf_rank.get(pid, 0.0) + (1 - alpha) * cbf_scores.get(pid, 0.0),
\* as a numerator over the denominator BlendDen(cfDen)
BlendedScore(alpha, cfNum, cfDen, cbfNum) ==
    alpha * cfNum * CandidateLimit + (AlphaOne - alpha) * cbfNum * cfDen

\* blended, sorted by score descending (list.sort is stable, so equal scores
\* stay in the iteration order of all_ids), cut to limit
HybridRecIds(iter, blended, limit) == Take(SortDescStable(iter, blended), limit)

\* blended with a missing CBF score counted as the full score, not as 0
HybridBlend_missingAsFull(alpha, all_ids, cf_rank, cfDen, cbf_scores) ==
    [pid \in all_ids |->
        BlendedScore(alpha,
            IF pid \in DOMAIN cf_rank THEN cf_rank[pid] ELSE 0,
            cfDen,
            IF pid \in DOMAIN cbf_scores THEN cbf_scores[pid] ELSE CandidateLimit)]

\* blended: the score of every id of the union
HybridBlend(alpha, all_ids, cf_rank, cfDen, cbf_scores) ==
    [pid \in all_ids |->
        BlendedScore(alpha,
            IF pid \in DOMAIN cf_rank THEN cf_rank[pid] ELSE 0,
            cfDen,
            IF pid \in DOMAIN cbf_scores THEN cbf_scores[pid] ELSE 0)]

\* the end of get_hybrid_recommendations with a fallback that lists the head
\* of the catalog, active or not, instead of the popular products
HybridAnswer_catalogFallback(st, reads, writes, limit, iter, blended, dbg) ==
    LET rec_ids == HybridRecIds(iter, blended, limit)
    IN IF rec_ids = <<>>
       THEN [Result("ok", "popular", Take([i \in 1..Len(products) |-> products[i].id], limit),
                    <<>>, st, reads + 1, writes) EXCEPT !.dbg = dbg]
       ELSE IF ~CanRead
       THEN Result("raise", "hydrate", <<>>, rec_ids, st, reads + 1, writes)
       ELSE [Result("ok", "ranked", FetchProductsByIds(rec_ids), rec_ids,
                    st, reads + 1, writes) EXCEPT !.dbg = dbg]

\* the end of get_hybrid_recommendations: sort, cut, fall back or hydrate
HybridAnswer(st, reads, writes, limit, iter, blended, dbg) ==
    LET rec_ids == HybridRecIds(iter, blended, limit)
    IN IF rec_ids = <<>>
       THEN [Result("ok", "popular", get_popular_products(limit), <<>>,
                    st, reads + 1, writes) EXCEPT !.dbg = dbg]
       ELSE IF ~CanRead
       THEN Result("raise", "hydrate", <<>>, rec_ids, st, reads + 1, writes)
       ELSE [Result("ok", "ranked", FetchProductsByIds(rec_ids), rec_ids,
                    st, reads + 1, writes) EXCEPT !.dbg = dbg]

\* get_hybrid_recommendations after the loop over the seeds returned x
HybridRank(x, cf_list, cf_path, cf_rank, seeds, limit, alpha, hashOrder) ==
    IF x.status = "raise"
    THEN Result("raise", "cbf", <<>>, <<>>, x.st, x.reads, x.writes)
    ELSE HybridAnswer(x.st, x.reads, x.writes, limit,
            SelectSeq(hashOrder, LAMBDA p : p \in DOMAIN x.cbf_scores \cup DOMAIN cf_rank),
            HybridBlend(alpha, DOMAIN x.cbf_scores \cup DOMAIN cf_rank, cf_rank,
                        CfDen(cf_list), x.cbf_scores),
            [cf_list |-> cf_list, cf_path |-> cf_path, cf_rank |-> cf_rank,
             seeds |-> seeds, cbf_scores |-> x.cbf_scores,
             blended |-> HybridBlend(alpha, DOMAIN x.cbf_scores \cup DOMAIN cf_rank,
                                     cf_rank, CfDen(cf_list), x.cbf_scores)])

\* get_hybrid_recommendations after the collaborative call returned cf
HybridSeeds(cf, seeds, limit, alpha, hashOrder) ==
    IF cf.status = "raise"
    THEN Result("raise", "cf", <<>>, <<>>, cf.st, cf.reads, cf.writes)
    ELSE IF ~CanRead
    THEN Result("raise", "seeds", <<>>, <<>>, cf.st, cf.reads + 1, cf.writes)
    ELSE HybridRank(CbfExpand(seeds, cf.st, <<>>, cf.reads + 1, cf.writes),
                    cf.out, cf.path, CfRank(cf.out), seeds, limit, alpha, hashOrder)

\* get_hybrid_recommendations; hashOrder is the order in which a Python set
\* of these ids is iterated
get_hybrid_recommendations(st, user_id, limit, alpha, hashOrder) ==
    HybridSeeds(get_collaborative_recommendations(st, user_id, CandidateLimit),
                FetchRecentPurchases(user_id), limit, alpha, hashOrder)

\* the orders in which a Python set of product ids may be iterated: the slot of
\* an int is its value modulo the table size, so the order depends on the ids
\* and need not be ascending
HashOrders == {Ascending(ProductIds), Reverse(Ascending(ProductIds))}

\* ------------------------------------------------------------ the requests
\* the limits of a request: none, one, and the largest
Limits == {0, 1, MaxLimit}
Alphas == {0, 6, AlphaOne}

Idle ==
    [op |-> "idle", id |-> 0, limit |-> 0, alpha |-> 0, status |-> "ok", path |-> "none",
     out |-> <<>>, ranked |-> <<>>, reads |-> 0, writes |-> 0, dbg |-> <<>>, data |-> None]

\* what a request leaves in resp: its arguments and the result of the call
Answer(op, id, limit, alpha, r) ==
    [op |-> op, id |-> id, limit |-> limit, alpha |-> alpha, status |-> r.status,
     path |-> r.path, out |-> r.out, ranked |-> r.ranked, reads |-> r.reads,
     writes |-> r.writes, dbg |-> r.dbg, data |-> r.data]

\* GET /api/recommendations/cbf: a raise of the engine becomes HTTP 500
cbf_recommendations(product_id, limit) ==
    /\ resp.op = "idle"
    /\ LET r == get_content_based_recommendations(CacheState, product_id, limit)
       IN /\ resp' = Answer("cbf", product_id, limit, 0, r)
          /\ _cache' = r.st.c
          /\ _timestamps' = r.st.t
    /\ UNCHANGED <<products, purchases, dbUp, now, threads, missed>>

\* GET /api/recommendations/cf
cf_recommendations(user_id, limit) ==
    /\ resp.op = "idle"
    /\ LET r == get_collaborative_recommendations(CacheState, user_id, limit)
       IN /\ resp' = Answer("cf", user_id, limit, 0, r)
          /\ _cache' = r.st.c
          /\ _timestamps' = r.st.t
    /\ UNCHANGED <<products, purchases, dbUp, now, threads, missed>>

\* GET /api/recommendations/hybrid
hybrid_recommendations(user_id, limit, alpha, hashOrder) ==
    /\ resp.op = "idle"
    /\ LET r == get_hybrid_recommendations(CacheState, user_id, limit, alpha, hashOrder)
       IN /\ resp' = Answer("hybrid", user_id, limit, alpha, r)
          /\ _cache' = r.st.c
          /\ _timestamps' = r.st.t
    /\ UNCHANGED <<products, purchases, dbUp, now, threads, missed>>

\* the response is sent; the worker takes the next request
Respond ==
    /\ resp.op # "idle"
    /\ resp' = Idle
    /\ UNCHANGED <<products, purchases, dbUp, _cache, _timestamps, now, threads, missed>>

\* ------------------------------------------------------- the store contents
\* the orders in which the store may scan the products table
ScanOrders == {Ascending(ProductIds), Reverse(Ascending(ProductIds))}

\* every product is active, in either scan order, or the last one was
\* deactivated
ProductTables ==
    {[i \in 1..MaxProducts |-> [id |-> order[i], is_active |-> TRUE]] : order \in ScanOrders}
        \cup {[i \in 1..MaxProducts |-> [id |-> i, is_active |-> (i # MaxProducts)]]}

PurchaseEvent(u, p, q) == [user_id |-> u, product_id |-> p, quantity |-> q]

\* the concrete scenario, with A = 2 and B = 3 (grains) and C = 1 (oils):
\* buyer 1 bought A x3 and B x1, buyer 2 bought A x2 and C x5
ScenarioLog ==
    <<PurchaseEvent(1, 2, 3), PurchaseEvent(1, 3, 1), PurchaseEvent(2, 2, 2), PurchaseEvent(2, 1, 5)>>

\* buyer 1 bought product 1 twice, buyer 2 bought products 2 and 3: two CF
\* candidates for buyer 1
WideLog ==
    <<PurchaseEvent(1, 1, 1), PurchaseEvent(2, 2, 1), PurchaseEvent(2, 3, 1), PurchaseEvent(1, 1, 1)>>

\* the position of an event in the order the generated logs are written in
EventKey(e) == e.user_id * (MaxProducts + 1) + e.product_id

\* every log of at most MaxEvents purchases of quantity 1. The order of the
\* events decides only which purchases are the SeedLimit most recent; with
\* MaxEvents events all of them are, so the logs are taken up to reordering
EventLogs ==
    {log \in UNION {[1..n -> {PurchaseEvent(u, p, 1) : u \in Buyers, p \in ProductIds}] :
                        n \in 0..MaxEvents} :
        \A i \in 1..(Len(log) - 1) : EventKey(log[i]) <= EventKey(log[i + 1])}

\* a third buyer in the history gives buyer 1 two CF candidates of different
\* scores: product 3 (bought with product 1 by buyer 2) before product 2
ThirdBuyerLog ==
    <<PurchaseEvent(1, 1, 1), PurchaseEvent(2, 1, 1), PurchaseEvent(2, 3, 1), PurchaseEvent(3, 2, 1)>>

PurchaseLogs == EventLogs \cup {ScenarioLog, WideLog, ThirdBuyerLog}

\* ------------------------------------------------------ the ranker, serving
Init ==
    /\ products \in ProductTables
    /\ purchases \in PurchaseLogs
    /\ dbUp = TRUE
    /\ _cache = <<>>
    /\ _timestamps = <<>>
    /\ now = 0
    /\ resp = Idle
    /\ threads = <<>>
    /\ missed = {}

Next ==
    \/ \E p \in ProductIds, l \in Limits : cbf_recommendations(p, l)
    \/ \E u \in Buyers, l \in Limits : cf_recommendations(u, l)
    \/ \E u \in Buyers, l \in Limits, a \in Alphas, h \in HashOrders :
            hybrid_recommendations(u, l, a, h)
    \/ Respond

Spec == Init /\ [][Next]_vars

\* ------------------------------------------------ the ranker, store outages
\* the store becomes unreachable: every db.execute raises
StoreFails ==
    /\ resp.op = "idle"
    /\ dbUp
    /\ dbUp' = FALSE
    /\ UNCHANGED <<products, purchases, _cache, _timestamps, now, resp, threads, missed>>

StoreRecovers ==
    /\ resp.op = "idle"
    /\ ~dbUp
    /\ dbUp' = TRUE
    /\ UNCHANGED <<products, purchases, _cache, _timestamps, now, resp, threads, missed>>

\* a catalog of which every product was deactivated
InactiveTable == [i \in 1..MaxProducts |-> [id |-> i, is_active |-> FALSE]]

InitOutage ==
    /\ products \in ProductTables \cup {InactiveTable}
    /\ purchases \in {<<>>, <<PurchaseEvent(1, 1, 1)>>, ScenarioLog, WideLog}
    /\ dbUp = TRUE
    /\ _cache = <<>>
    /\ _timestamps = <<>>
    /\ now = 0
    /\ resp = Idle
    /\ threads = <<>>
    /\ missed = {}

NextOutage ==
    \/ \E p \in ProductIds, l \in Limits : cbf_recommendations(p, l)
    \/ \E u \in Buyers, l \in Limits : cf_recommendations(u, l)
    \/ \E u \in Buyers, l \in Limits, a \in Alphas, h \in HashOrders :
            hybrid_recommendations(u, l, a, h)
    \/ Respond
    \/ StoreFails
    \/ StoreRecovers

SpecOutage == InitOutage /\ [][NextOutage]_vars

\* ------------------------------------------- the builders, clock, ingestion
\* the ranking a CBF artifact gives for its first row as anchor
CbfProbe(data) ==
    IF data = None THEN <<>>
    ELSE CbfTopIds(data[1].df, data[1].df[1].id, CandidateLimit)

\* the ranking a CF artifact gives for its first buyer
CfProbe(data) ==
    IF data = None THEN <<>>
    ELSE CfRecIds(data[1], CHOOSE u \in DOMAIN data[1].pivot :
                                \A w \in DOMAIN data[1].pivot : u <= w, CandidateLimit)

\* a call of _build_cbf_matrix; resp keeps what the call returned
build_cbf_call ==
    LET b == _build_cbf_matrix(CacheState)
    IN /\ resp' = [Idle EXCEPT !.op = "build_cbf", !.status = b.status, !.data = b.data,
                               !.ranked = CbfProbe(b.data), !.reads = b.reads,
                               !.writes = b.writes]
       /\ _cache' = b.st.c
       /\ _timestamps' = b.st.t
       /\ UNCHANGED <<products, purchases, dbUp, now, threads, missed>>

\* a call of _build_cf_item_similarity
build_cf_call ==
    LET b == _build_cf_item_similarity(CacheState)
    IN /\ resp' = [Idle EXCEPT !.op = "build_cf", !.status = b.status, !.data = b.data,
                               !.ranked = CfProbe(b.data), !.reads = b.reads,
                               !.writes = b.writes]
       /\ _cache' = b.st.c
       /\ _timestamps' = b.st.t
       /\ UNCHANGED <<products, purchases, dbUp, now, threads, missed>>

\* time passes
Tick ==
    /\ now < MaxTicks * TickStep
    /\ now' = now + TickStep
    /\ UNCHANGED <<products, purchases, dbUp, _cache, _timestamps, resp, threads, missed>>

\* ingest_products: a product of the CSV that the table lacks is inserted as
\* an active row; a product the table has keeps its is_active
IngestProducts(table, pids) ==
    LET fresh == SelectSeq(pids, LAMBDA p : \A i \in 1..Len(table) : table[i].id # p)
    IN table \o [i \in 1..Len(fresh) |-> [id |-> fresh[i], is_active |-> TRUE]]

\* POST /api/admin/ingest-csvs: ingest_all runs the products, retailers and
\* purchases steps, each committing on its own; a step whose CSV lacks a
\* required column raises before it writes, and cache.clear() is reached
\* only when no step raised
ingest_csvs(products_csv, purchases_csv, failAt) ==
    /\ Len(purchases) + Len(purchases_csv) <= MaxEvents
    /\ products' = IF failAt = "products" THEN products
                   ELSE IngestProducts(products, products_csv)
    /\ purchases' = IF failAt = "none" THEN purchases \o purchases_csv ELSE purchases
    /\ _cache' = IF failAt = "none" THEN Clear(CacheState).c ELSE _cache
    /\ _timestamps' = IF failAt = "none" THEN Clear(CacheState).t ELSE _timestamps
    /\ UNCHANGED <<dbUp, now, resp, threads, missed>>

ProductCsvs == {<<>>, <<MaxProducts>>}

PurchaseCsvs == {<<>>} \cup {<<PurchaseEvent(u, u, 1)>> : u \in Buyers}

IngestSteps == {"none", "products", "retailers", "purchases"}

InitBuild ==
    /\ products \in {<<>>, [i \in 1..(MaxProducts - 1) |-> [id |-> i, is_active |-> TRUE]]}
    /\ purchases = <<>>
    /\ dbUp = TRUE
    /\ _cache = <<>>
    /\ _timestamps = <<>>
    /\ now = 0
    /\ resp = Idle
    /\ threads = <<>>
    /\ missed = {}

NextBuild ==
    \/ build_cbf_call
    \/ build_cf_call
    \/ Tick
    \/ \E pc \in ProductCsvs, hc \in PurchaseCsvs, f \in IngestSteps : ingest_csvs(pc, hc, f)

SpecBuild == InitBuild /\ [][NextBuild]_vars

\* ------------------------------------------- SimpleCache, one call at a time
CacheKeys == {"k1", "k2"}
CacheValues == {"v1", "v2"}
Ttls == {0, 60, CbfTtl}

\* what a cache call leaves in resp: the call, its result and its time
CacheAnswer(op, key, value, ttl, ret, again) ==
    [op |-> op, key |-> key, value |-> value, ttl |-> ttl, ret |-> ret,
     at |-> now, again |-> again, dropped |-> {}, stale |-> {}]

\* cache.get(key)
cache_get(key) ==
    LET g == Get(CacheState, key, now)
        expired == /\ key \in DOMAIN _cache
                   /\ key \in DOMAIN _timestamps
                   /\ Expired(_timestamps[key], now)
    IN /\ resp' = CacheAnswer("get", key, "", 0, g.ret, key \in missed)
       /\ _cache' = g.st.c
       /\ _timestamps' = g.st.t
       /\ missed' = IF expired THEN missed \cup {key} ELSE missed
       /\ UNCHANGED <<products, purchases, dbUp, now, threads>>

\* cache.set(key, value, ttl)
cache_set(key, value, ttl) ==
    LET st == Set(CacheState, key, value, ttl, now)
    IN /\ resp' = CacheAnswer("set", key, value, ttl, Some("True"), FALSE)
       /\ _cache' = st.c
       /\ _timestamps' = st.t
       /\ missed' = missed \ {key}
       /\ UNCHANGED <<products, purchases, dbUp, now, threads>>

\* cache.delete(key)
cache_delete(key) ==
    LET st == Delete(CacheState, key)
    IN /\ resp' = CacheAnswer("delete", key, "", 0, Some("True"), FALSE)
       /\ _cache' = st.c
       /\ _timestamps' = st.t
       /\ UNCHANGED <<products, purchases, dbUp, now, threads, missed>>

\* cache.clear()
cache_clear ==
    LET st == Clear(CacheState)
    IN /\ resp' = [CacheAnswer("clear", "", "", 0, Some("True"), FALSE) EXCEPT
                        !.dropped = DOMAIN _cache,
                        !.stale = {k \in DOMAIN _timestamps : Expired(_timestamps[k], now)}]
       /\ _cache' = st.c
       /\ _timestamps' = st.t
       /\ UNCHANGED <<products, purchases, dbUp, now, threads, missed>>

\* cache.cleanup_expired()
cache_cleanup_expired ==
    LET st == CleanupExpired(CacheState, now)
    IN /\ resp' = CacheAnswer("cleanup_expired", "", "", 0, None, FALSE)
       /\ _cache' = st.c
       /\ _timestamps' = st.t
       /\ UNCHANGED <<products, purchases, dbUp, now, threads, missed>>

InitCache ==
    /\ products = <<>>
    /\ purchases = <<>>
    /\ dbUp = TRUE
    /\ _cache = <<>>
    /\ _timestamps = <<>>
    /\ now = 0
    /\ resp = CacheAnswer("none", "", "", 0, None, FALSE)
    /\ threads = <<>>
    /\ missed = {}

NextCache ==
    \/ \E k \in CacheKeys : cache_get(k)
    \/ \E k \in CacheKeys, v \in CacheValues, ttl \in Ttls : cache_set(k, v, ttl)
    \/ \E k \in CacheKeys : cache_delete(k)
    \/ cache_clear
    \/ cache_cleanup_expired
    \/ Tick

SpecCache == InitCache /\ [][NextCache]_vars

\* ------------------------------------- SimpleCache, threads interleaving
\* Request threads share the one SimpleCache, which takes no lock; a thread
\* can be preempted between any two dict operations of a method.  Each action
\* below is one dict operation of one thread; resp keeps the last call that
\* returned.
Threads == 1..MaxThreads
ThreadKeys == {"k1"}
ThreadTtls == {60}

IdleThread ==
    [pc |-> "idle", op |-> "none", key |-> "", value |-> "", ttl |-> 0, caller |-> "none",
     t0 |-> 0, created |-> 0, size |-> 0, seen |-> {}, todo |-> <<>>]

\* thread t moves on inside its call
Goto(t, pc) == threads' = [threads EXCEPT ![t].pc = pc]

\* the call of thread t returns ret
Return(t, ret) ==
    /\ threads' = [threads EXCEPT ![t] = IdleThread]
    /\ resp' = CacheAnswer(threads[t].op, threads[t].key, threads[t].value, threads[t].ttl,
                           ret, FALSE)

\* the call of thread t returns ret, thread t being still idle in threads
ReturnAtOnce(t, op, key, ret) ==
    /\ threads' = threads
    /\ resp' = CacheAnswer(op, key, "", 0, ret, FALSE)

\* get, line 18: if key in self._cache
T_get_in_cache(t, key) ==
    /\ threads[t].pc = "idle"
    /\ IF key \in DOMAIN _cache
       THEN /\ threads' = [threads EXCEPT ![t] = [IdleThread EXCEPT !.pc = "get_in_ts",
                                                    !.op = "get", !.key = key]]
            /\ UNCHANGED resp
       ELSE ReturnAtOnce(t, "get", key, None)
    /\ UNCHANGED <<products, purchases, dbUp, _cache, _timestamps, now, missed>>

\* get, line 20: if key in self._timestamps; line 21 starts with time.time()
T_get_in_ts(t) ==
    /\ threads[t].pc = "get_in_ts"
    /\ IF threads[t].key \in DOMAIN _timestamps
       THEN threads' = [threads EXCEPT ![t].pc = "get_created", ![t].t0 = now]
       ELSE Goto(t, "get_ret")
    /\ UNCHANGED <<products, purchases, dbUp, _cache, _timestamps, now, resp, missed>>

\* get, line 21: self._timestamps[key]['created']; a KeyError is caught by
\* line 26 and get returns None
T_get_created(t) ==
    /\ threads[t].pc = "get_created"
    /\ IF threads[t].key \in DOMAIN _timestamps
       THEN /\ threads' = [threads EXCEPT ![t].pc = "get_ttl",
                                          ![t].created = _timestamps[threads[t].key].created]
            /\ UNCHANGED resp
       ELSE Return(t, None)
    /\ UNCHANGED <<products, purchases, dbUp, _cache, _timestamps, now, missed>>

\* get, line 21: ... > self._timestamps[key]['ttl'], then line 22 or line 24
T_get_ttl(t) ==
    /\ threads[t].pc = "get_ttl"
    /\ IF threads[t].key \in DOMAIN _timestamps
       THEN /\ IF threads[t].t0 - threads[t].created > _timestamps[threads[t].key].ttl
               THEN threads' = [threads EXCEPT ![t].pc = "del_in_cache", ![t].caller = "get"]
               ELSE Goto(t, "get_ret")
            /\ UNCHANGED resp
       ELSE Return(t, None)
    /\ UNCHANGED <<products, purchases, dbUp, _cache, _timestamps, now, missed>>

\* get, line 24: return self._cache[key]; a KeyError gives None
T_get_ret(t) ==
    /\ threads[t].pc = "get_ret"
    /\ IF threads[t].key \in DOMAIN _cache
       THEN Return(t, Some(_cache[threads[t].key]))
       ELSE Return(t, None)
    /\ UNCHANGED <<products, purchases, dbUp, _cache, _timestamps, now, missed>>

\* set, line 33: self._cache[key] = value
T_set_cache(t, key, value, ttl) ==
    /\ threads[t].pc = "idle"
    /\ _cache' = [k \in DOMAIN _cache \cup {key} |-> IF k = key THEN value ELSE _cache[k]]
    /\ threads' = [threads EXCEPT ![t] = [IdleThread EXCEPT !.pc = "set_ts", !.op = "set",
                                            !.key = key, !.value = value, !.ttl = ttl]]
    /\ UNCHANGED <<products, purchases, dbUp, _timestamps, now, resp, missed>>

\* set, lines 34-38: self._timestamps[key] = {...}; return True
T_set_ts(t) ==
    /\ threads[t].pc = "set_ts"
    /\ _timestamps' = [k \in DOMAIN _timestamps \cup {threads[t].key} |->
                         IF k = threads[t].key
                         THEN [created |-> now, ttl |-> threads[t].ttl]
                         ELSE _timestamps[k]]
    /\ Return(t, Some("True"))
    /\ UNCHANGED <<products, purchases, dbUp, _cache, now, missed>>

\* where delete goes back to: the caller of the API call, line 23 of get, or
\* the loop of cleanup_expired
DeleteReturns(t, ret) ==
    IF threads[t].caller = "get" THEN Return(t, None)
    ELSE IF threads[t].caller = "cleanup" THEN Goto(t, "cl_del") /\ UNCHANGED resp
    ELSE Return(t, ret)

\* delete called by a request: line 46
T_delete(t, key) ==
    /\ threads[t].pc = "idle"
    /\ threads' = [threads EXCEPT ![t] = [IdleThread EXCEPT
            !.pc = IF key \in DOMAIN _cache THEN "del_cache" ELSE "del_in_ts",
            !.op = "delete", !.key = key, !.caller = "delete"]]
    /\ UNCHANGED <<products, purchases, dbUp, _cache, _timestamps, now, resp, missed>>

\* delete called by get or cleanup_expired: line 46
T_del_in_cache(t) ==
    /\ threads[t].pc = "del_in_cache"
    /\ Goto(t, IF threads[t].key \in DOMAIN _cache THEN "del_cache" ELSE "del_in_ts")
    /\ UNCHANGED <<products, purchases, dbUp, _cache, _timestamps, now, resp, missed>>

\* delete, line 47: del self._cache[key]; a KeyError is caught by line 51 and
\* delete returns False without reaching line 48
T_del_cache(t) ==
    /\ threads[t].pc = "del_cache"
    /\ IF threads[t].key \in DOMAIN _cache
       THEN /\ _cache' = Restrict(_cache, DOMAIN _cache \ {threads[t].key})
            /\ Goto(t, "del_in_ts")
            /\ UNCHANGED resp
       ELSE /\ DeleteReturns(t, Some("False"))
            /\ UNCHANGED _cache
    /\ UNCHANGED <<products, purchases, dbUp, _timestamps, now, missed>>

\* delete, line 48: if key in self._timestamps
T_del_in_ts(t) ==
    /\ threads[t].pc = "del_in_ts"
    /\ IF threads[t].key \in DOMAIN _timestamps
       THEN Goto(t, "del_ts") /\ UNCHANGED resp
       ELSE DeleteReturns(t, Some("True"))
    /\ UNCHANGED <<products, purchases, dbUp, _cache, _timestamps, now, missed>>

\* delete, line 49: del self._timestamps[key]
T_del_ts(t) ==
    /\ threads[t].pc = "del_ts"
    /\ IF threads[t].key \in DOMAIN _timestamps
       THEN /\ _timestamps' = Restrict(_timestamps, DOMAIN _timestamps \ {threads[t].key})
            /\ DeleteReturns(t, Some("True"))
       ELSE /\ DeleteReturns(t, Some("False"))
            /\ UNCHANGED _timestamps
    /\ UNCHANGED <<products, purchases, dbUp, _cache, now, missed>>

\* clear, line 58: self._cache.clear()
T_clear_cache(t) ==
    /\ threads[t].pc = "idle"
    /\ _cache' = <<>>
    /\ threads' = [threads EXCEPT ![t] = [IdleThread EXCEPT !.pc = "clear_ts", !.op = "clear"]]
    /\ UNCHANGED <<products, purchases, dbUp, _timestamps, now, resp, missed>>

\* clear, lines 59-60: self._timestamps.clear(); return True
T_clear_ts(t) ==
    /\ threads[t].pc = "clear_ts"
    /\ _timestamps' = <<>>
    /\ Return(t, Some("True"))
    /\ UNCHANGED <<products, purchases, dbUp, _cache, now, missed>>

\* cleanup_expired, lines 68-71: the time is taken and the iteration starts
T_cleanup_begin(t) ==
    /\ threads[t].pc = "idle"
    /\ threads' = [threads EXCEPT ![t] = [IdleThread EXCEPT !.pc = "cl_iter",
                        !.op = "cleanup_expired", !.t0 = now,
                        !.size = Cardinality(DOMAIN _timestamps)]]
    /\ UNCHANGED <<products, purchases, dbUp, _cache, _timestamps, now, resp, missed>>

\* cleanup_expired, lines 71-73: one turn of the loop over _timestamps.items();
\* a dict whose size changed during the iteration raises RuntimeError, which
\* line 80 catches
T_cleanup_iter(t) ==
    /\ threads[t].pc = "cl_iter"
    /\ IF Cardinality(DOMAIN _timestamps) # threads[t].size
       THEN Return(t, None)
       ELSE /\ UNCHANGED resp
            /\ IF DOMAIN _timestamps \subseteq threads[t].seen
               THEN Goto(t, "cl_del")
               ELSE \E key \in DOMAIN _timestamps \ threads[t].seen :
                      threads' = [threads EXCEPT
                          ![t].seen = @ \cup {key},
                          ![t].todo = IF threads[t].t0 - _timestamps[key].created
                                            > _timestamps[key].ttl
                                      THEN Append(@, key) ELSE @]
    /\ UNCHANGED <<products, purchases, dbUp, _cache, _timestamps, now, missed>>

\* cleanup_expired, lines 75-78: the next expired key is deleted, or the
\* method ends
T_cleanup_delete(t) ==
    /\ threads[t].pc = "cl_del"
    /\ IF threads[t].todo = <<>>
       THEN Return(t, None)
       ELSE /\ threads' = [threads EXCEPT ![t].pc = "del_in_cache", ![t].caller = "cleanup",
                                          ![t].key = Head(threads[t].todo),
                                          ![t].todo = Tail(threads[t].todo)]
            /\ UNCHANGED resp
    /\ UNCHANGED <<products, purchases, dbUp, _cache, _timestamps, now, missed>>

InitThreads ==
    /\ products = <<>>
    /\ purchases = <<>>
    /\ dbUp = TRUE
    /\ _cache = <<>>
    /\ _timestamps = <<>>
    /\ now = 0
    /\ resp = CacheAnswer("none", "", "", 0, None, FALSE)
    /\ threads = [t \in Threads |-> IdleThread]
    /\ missed = {}

NextThreads ==
    \/ \E t \in Threads, k \in ThreadKeys : T_get_in_cache(t, k)
    \/ \E t \in Threads : T_get_in_ts(t)
    \/ \E t \in Threads : T_get_created(t)
    \/ \E t \in Threads : T_get_ttl(t)
    \/ \E t \in Threads : T_get_ret(t)
    \/ \E t \in Threads, k \in ThreadKeys, v \in CacheValues, ttl \in ThreadTtls :
            T_set_cache(t, k, v, ttl)
    \/ \E t \in Threads : T_set_ts(t)
    \/ \E t \in Threads, k \in ThreadKeys : T_delete(t, k)
    \/ \E t \in Threads : T_del_in_cache(t)
    \/ \E t \in Threads : T_del_cache(t)
    \/ \E t \in Threads : T_del_in_ts(t)
    \/ \E t \in Threads : T_del_ts(t)
    \/ \E t \in Threads : T_clear_cache(t)
    \/ \E t \in Threads : T_clear_ts(t)
    \/ \E t \in Threads : T_cleanup_begin(t)
    \/ \E t \in Threads : T_cleanup_iter(t)
    \/ \E t \in Threads : T_cleanup_delete(t)
    \/ Tick

SpecThreads == InitThreads /\ [][NextThreads]_vars

\* ------------------------------- builds racing each other and an ingestion
\* Every request runs _build_cbf_matrix or _build_cf_item_similarity as three
\* steps that other requests may interleave with: cache.get, the store query
\* with the computation of the artifact, and cache.set (its two assignments).
\* threads holds the builders, resp the progress of the one ingestion.
BuildKinds == {"cbf", "cf"}

\* the two requests that build
Builders == {1, 2}

BuildKey(kind) == IF kind = "cbf" THEN _cbf_cache_key ELSE _cf_cache_key

BuildTtl(kind) == IF kind = "cbf" THEN CbfTtl ELSE CfTtl

IdleBuilder == [pc |-> "idle", kind |-> "none", art |-> None, data |-> None, built |-> FALSE]

\* a store that hands the rows to the second builder in the opposite order
BuildFromStore_secondReversed(t, kind) ==
    IF kind = "cbf"
    THEN IF FetchActiveProducts = <<>> THEN None
         ELSE IF t = 2 THEN Some(CbfArtifact(Reverse(FetchActiveProducts)))
         ELSE Some(CbfArtifact(FetchActiveProducts))
    ELSE IF purchases = <<>> THEN None ELSE Some(CfArtifact)

\* the store query of builder t and the artifact computed from its rows;
\* None when the query gave no row
BuildFromStore(t, kind) ==
    IF kind = "cbf"
    THEN IF FetchActiveProducts = <<>> THEN None ELSE Some(CbfArtifact(FetchActiveProducts))
    ELSE IF purchases = <<>> THEN None ELSE Some(CfArtifact)

\* cached = cache.get(key); a hit is returned at once
Build_get(t, kind) ==
    /\ threads[t].pc = "idle"
    /\ LET g == Get(CacheState, BuildKey(kind), now)
       IN /\ _cache' = g.st.c
          /\ _timestamps' = g.st.t
          /\ threads' = [threads EXCEPT ![t] =
                IF g.ret # None
                THEN [IdleBuilder EXCEPT !.pc = "done", !.kind = kind, !.data = g.ret]
                ELSE [IdleBuilder EXCEPT !.pc = "read", !.kind = kind]]
    /\ UNCHANGED <<products, purchases, dbUp, now, resp, missed>>

\* the query and the computation; an empty result returns None
Build_read(t) ==
    /\ threads[t].pc = "read"
    /\ LET art == BuildFromStore(t, threads[t].kind)
       IN threads' = [threads EXCEPT ![t].art = art,
                                     ![t].pc = IF art = None THEN "done" ELSE "set_cache"]
    /\ UNCHANGED <<products, purchases, dbUp, _cache, _timestamps, now, resp, missed>>

\* cache.set, line 33 of cache.py: self._cache[key] = value
Build_set_cache(t) ==
    /\ threads[t].pc = "set_cache"
    /\ LET key == BuildKey(threads[t].kind)
       IN _cache' = [k \in DOMAIN _cache \cup {key} |->
                        IF k = key THEN threads[t].art[1] ELSE _cache[k]]
    /\ Goto(t, "set_ts")
    /\ UNCHANGED <<products, purchases, dbUp, _timestamps, now, resp, missed>>

\* cache.set, line 34 of cache.py: self._timestamps[key] = {...}; the builder
\* returns its artifact
Build_set_ts(t) ==
    /\ threads[t].pc = "set_ts"
    /\ LET key == BuildKey(threads[t].kind)
       IN _timestamps' = [k \in DOMAIN _timestamps \cup {key} |->
                            IF k = key
                            THEN [created |-> now, ttl |-> BuildTtl(threads[t].kind)]
                            ELSE _timestamps[k]]
    /\ threads' = [threads EXCEPT ![t].pc = "done", ![t].data = threads[t].art,
                                  ![t].built = TRUE]
    /\ UNCHANGED <<products, purchases, dbUp, _cache, now, resp, missed>>

\* the request ranks with the artifact it holds and answers
Build_return(t) ==
    /\ threads[t].pc = "done"
    /\ threads' = [threads EXCEPT ![t] = IdleBuilder]
    /\ UNCHANGED <<products, purchases, dbUp, _cache, _timestamps, now, resp, missed>>

IdleIngest == [op |-> "ingest", pc |-> "idle"]

\* ingest_all, the products step and its commit
Ingest_products ==
    /\ resp.pc = "idle"
    /\ products' = IngestProducts(products, <<MaxProducts>>)
    /\ resp' = [resp EXCEPT !.pc = "purchases"]
    /\ UNCHANGED <<purchases, dbUp, _cache, _timestamps, now, threads, missed>>

\* ingest_all, the purchases step and its commit
Ingest_purchases ==
    /\ resp.pc = "purchases"
    /\ purchases' = purchases \o <<PurchaseEvent(2, MaxProducts, 1)>>
    /\ resp' = [resp EXCEPT !.pc = "clear_cache"]
    /\ UNCHANGED <<products, dbUp, _cache, _timestamps, now, threads, missed>>

\* cache.clear(), line 58 of cache.py
Ingest_clear_cache ==
    /\ resp.pc = "clear_cache"
    /\ _cache' = <<>>
    /\ resp' = [resp EXCEPT !.pc = "clear_ts"]
    /\ UNCHANGED <<products, purchases, dbUp, _timestamps, now, threads, missed>>

\* cache.clear(), line 59 of cache.py; clear() returns
Ingest_clear_ts ==
    /\ resp.pc = "clear_ts"
    /\ _timestamps' = <<>>
    /\ resp' = [resp EXCEPT !.pc = "done"]
    /\ UNCHANGED <<products, purchases, dbUp, _cache, now, threads, missed>>

InitRace ==
    /\ products = [i \in 1..(MaxProducts - 1) |-> [id |-> i, is_active |-> TRUE]]
    /\ purchases \in {<<>>, <<PurchaseEvent(1, 1, 1)>>}
    /\ dbUp = TRUE
    /\ _cache = <<>>
    /\ _timestamps = <<>>
    /\ now = 0
    /\ resp = IdleIngest
    /\ threads = [t \in Builders |-> IdleBuilder]
    /\ missed = {}

NextRace ==
    \/ \E t \in Builders, kind \in BuildKinds : Build_get(t, kind)
    \/ \E t \in Builders : Build_read(t)
    \/ \E t \in Builders : Build_set_cache(t)
    \/ \E t \in Builders : Build_set_ts(t)
    \/ \E t \in Builders : Build_return(t)
    \/ Ingest_products
    \/ Ingest_purchases
    \/ Ingest_clear_cache
    \/ Ingest_clear_ts
    \/ Tick

SpecRace == InitRace /\ [][NextRace]_vars

\* ------------------------------------------- homepage and product page
\* The users table holds a row for every buyer, all of one business type and
\* city; user 0 has no row. Every purchase of the log is younger than seven
\* days and carries one date, so that the purchases of a buyer form one order.
\* The requests arrive within the TTL of the responses they find cached.
HomepageTtl == 900
ProductPageTtl == 1800

\* the users that open the homepage
Visitors == {0, 1}

HasUserRow(user_id) == user_id \in Buyers

homepage_cache_key(user_id) == "homepage_" \o ToString(user_id)

product_page_cache_key(product_id, user_id) ==
    "product_page_" \o ToString(product_id) \o "_" \o ToString(user_id)

\* the ids of the active products, in the order of the store's scan
ActiveIds == [i \in 1..Len(FetchActiveProducts) |-> FetchActiveProducts[i].id]

\* COUNT(DISTINCT ph.user_id) of a product
UniqueBuyers(p) ==
    Cardinality({purchases[i].user_id : i \in {j \in 1..Len(purchases) :
                                                   purchases[j].product_id = p}})

\* get_personalized_recommendations: the active products bought by users of
\* the business type or city, ORDER BY purchase_count DESC, unique_buyers
\* DESC; a failed read or a user without row gives get_popular_products
get_personalized_recommendations(up, user_id, limit) ==
    IF ~up \/ ~HasUserRow(user_id) THEN get_popular_products(limit)
    ELSE LET bought == SelectSeq(ActiveIds, LAMBDA p : PurchaseCount(p) > 0)
             byBuyers == SortDescStable(bought, [p \in Range(bought) |-> UniqueBuyers(p)])
             byCount == SortDescStable(byBuyers, [p \in Range(bought) |-> PurchaseCount(p)])
         IN Take(byCount, limit)

\* deal_promotions as database.py creates it: discount_value of the deal of a
\* product, 0 for a product without deal
DealDiscount(p) == IF p = 1 THEN 20 ELSE IF p = 2 THEN 100 ELSE 0

\* get_daily_deals: the active products with a valid deal, ORDER BY
\* discount_value DESC; a failed read gives []
get_daily_deals(up, limit) ==
    IF ~up THEN <<>>
    ELSE LET deals == SelectSeq(ActiveIds, LAMBDA p : DealDiscount(p) > 0)
         IN Take(SortDescStable(deals, [p \in Range(deals) |-> DealDiscount(p)]), limit)

\* get_trending_in_area: the active products bought in the user's city,
\* ORDER BY recent_purchases DESC; a failed read or a user without city gives
\* get_popular_products
get_trending_in_area(up, user_id, limit) ==
    IF ~up \/ ~HasUserRow(user_id) THEN get_popular_products(limit)
    ELSE LET bought == SelectSeq(ActiveIds, LAMBDA p : PurchaseCount(p) > 0)
         IN Take(SortDescStable(bought, [p \in Range(bought) |-> PurchaseCount(p)]), limit)

\* get_low_stock_alerts: HAVING MAX(purchased_at) <= now - 15 days holds for
\* no product of the log; a failed read gives []
get_low_stock_alerts(up, user_id, limit) ==
    IF ~up THEN <<>>
    ELSE Take(SelectSeq(ActiveIds, LAMBDA p : FALSE), limit)

\* get_seasonal_deals: the two fixed banners
get_seasonal_deals == <<"Diwali Special Offers", "Winter Essentials">>

\* the response dict of get_homepage_recommendations, lines 36-55
HomepageResponse(up, user_id) ==
    [personalized_recommendations |-> get_personalized_recommendations(up, user_id, 8),
     daily_deals |-> get_daily_deals(up, 6),
     trending_products |-> get_trending_in_area(up, user_id, 6),
     low_stock_alerts |-> get_low_stock_alerts(up, user_id, 4),
     seasonal_deals |-> get_seasonal_deals]

\* the miss path of get_homepage_recommendations: the composed response is
\* stored; every section helper catches its own failure, so the except branch
\* of lines 61-63 is never taken
HomepageCompose(st, user_id, response) ==
    [out |-> response,
     st |-> Set(st, homepage_cache_key(user_id), response, HomepageTtl, now),
     hit |-> FALSE, degraded |-> ~CanRead]

\* get_homepage_recommendations; out is the dict the caller receives, which on
\* either path is the object the cache holds
get_homepage_recommendations(st, user_id) ==
    IF Get(st, homepage_cache_key(user_id), now).ret # None
    THEN [out |-> Get(st, homepage_cache_key(user_id), now).ret[1], st |-> st,
          hit |-> TRUE, degraded |-> FALSE]
    ELSE HomepageCompose(Get(st, homepage_cache_key(user_id), now).st, user_id,
                         HomepageResponse(CanRead, user_id))

\* what a page request leaves in resp
PageAnswer(op, id, product_id, alpha, status, out, r) ==
    [op |-> op, id |-> id, product_id |-> product_id, alpha |-> alpha, status |-> status,
     out |-> out, engine |-> r.out, hit |-> r.hit, degraded |-> r.degraded]

\* get_homepage, lines 86-91: with hybrid_alpha the hybrid list is assigned
\* into the dict the engine returned, which is the dict the cache holds; a
\* raise of the hybrid ranker becomes HTTP 500
HomepageOverride(r, h, user_id, hybrid_alpha) ==
    IF h.status = "raise"
    THEN /\ resp' = PageAnswer("homepage", user_id, 0, hybrid_alpha, "raise", None, r)
         /\ _cache' = h.st.c
         /\ _timestamps' = h.st.t
    ELSE /\ resp' = PageAnswer("homepage", user_id, 0, hybrid_alpha, "ok",
                        Some([r.out EXCEPT !.personalized_recommendations = h.out]), r)
         /\ _cache' = [h.st.c EXCEPT ![homepage_cache_key(user_id)] =
                            [r.out EXCEPT !.personalized_recommendations = h.out]]
         /\ _timestamps' = h.st.t

\* get_homepage after the engine call
HomepageFinish(r, user_id, hybrid_alpha, hashOrder) ==
    /\ IF hybrid_alpha = None
       THEN /\ resp' = PageAnswer("homepage", user_id, 0, hybrid_alpha, "ok", Some(r.out), r)
            /\ _cache' = r.st.c
            /\ _timestamps' = r.st.t
       ELSE HomepageOverride(r, get_hybrid_recommendations(r.st, user_id, 8, hybrid_alpha[1],
                                                           hashOrder),
                             user_id, hybrid_alpha)
    /\ missed' = IF r.hit THEN missed
                 ELSE [k \in DOMAIN missed \cup {homepage_cache_key(user_id)} |->
                        IF k = homepage_cache_key(user_id)
                        THEN r.out.personalized_recommendations ELSE missed[k]]

\* GET /api/homepage; missed keeps, for every homepage key, the list that
\* get_personalized_recommendations computed for the response stored last
get_homepage(user_id, hybrid_alpha, hashOrder) ==
    /\ resp.op = "idle"
    /\ HomepageFinish(get_homepage_recommendations(CacheState, user_id), user_id,
                      hybrid_alpha, hashOrder)
    /\ UNCHANGED <<products, purchases, dbUp, now, threads>>

\* an active product row
IsProductActive(p) == \E i \in 1..Len(products) : products[i].id = p /\ products[i].is_active

\* the product row of an id, active or not
HasProductRow(p) == \E i \in 1..Len(products) : products[i].id = p

\* the ids of seq ORDER BY created_at DESC
NewestFirst(seq) == SortDescStable(seq, [p \in Range(seq) |-> CreatedAt(p)])

\* get_similar_products: the other active products of the category or the
\* subcategory (the catalog has one subcategory per category), newest first
get_similar_products(up, product_id, limit) ==
    IF ~up \/ ~HasProductRow(product_id) THEN <<>>
    ELSE Take(NewestFirst(SelectSeq(ActiveIds, LAMBDA p :
                p # product_id /\ Category(p) = Category(product_id))), limit)

\* COUNT(*) of the self join on order_id: the pairs of a purchase row of
\* product_id and a purchase row of p2 in the same order
ComboCount(product_id, p2) ==
    Cardinality({<<i, j>> \in (1..Len(purchases)) \X (1..Len(purchases)) :
                    /\ purchases[i].product_id = product_id
                    /\ purchases[j].product_id = p2
                    /\ purchases[i].user_id = purchases[j].user_id})

\* get_frequently_bought_together: ORDER BY combo_count DESC
get_frequently_bought_together(up, product_id, limit) ==
    IF ~up THEN <<>>
    ELSE LET together == SelectSeq(ActiveIds, LAMBDA p :
                            p # product_id /\ ComboCount(product_id, p) > 0)
         IN Take(SortDescStable(together,
                    [p \in Range(together) |-> ComboCount(product_id, p)]), limit)

\* get_new_products_in_category: the other active products of the category,
\* newest first
get_new_products_in_category(up, product_id, limit) ==
    IF ~up \/ ~HasProductRow(product_id) THEN <<>>
    ELSE Take(NewestFirst(SelectSeq(ActiveIds, LAMBDA p :
                p # product_id /\ Category(p) = Category(product_id))), limit)

\* the response dict of get_product_page_recommendations, lines 226-230
ProductPageResponse(up, product_id) ==
    [similar_products |-> get_similar_products(up, product_id, 4),
     combo_offers |-> get_frequently_bought_together(up, product_id, 2),
     new_products |-> get_new_products_in_category(up, product_id, 4)]

\* get_product_page_recommendations; up tells whether the store answers the
\* queries of this call
get_product_page_recommendations(st, up, product_id, user_id) ==
    IF Get(st, product_page_cache_key(product_id, user_id), now).ret # None
    THEN [out |-> Get(st, product_page_cache_key(product_id, user_id), now).ret[1],
          st |-> st, hit |-> TRUE, degraded |-> FALSE]
    ELSE [out |-> ProductPageResponse(up, product_id),
          st |-> Set(Get(st, product_page_cache_key(product_id, user_id), now).st,
                     product_page_cache_key(product_id, user_id),
                     ProductPageResponse(up, product_id), ProductPageTtl, now),
          hit |-> FALSE, degraded |-> ~up]

\* get_product_detail after its own query of the product row
ProductDetailFinish(r, product_id, user_id) ==
    /\ resp' = PageAnswer("product_page", user_id, product_id, None, "ok", Some(r.out), r)
    /\ _cache' = r.st.c
    /\ _timestamps' = r.st.t

\* GET /api/products/{product_id}: the endpoint reads the product row itself
\* (HTTP 500 when the read fails, 404 without an active row) and then calls
\* the engine; lost tells that the store became unreachable in between
get_product_detail(product_id, user_id, lost) ==
    /\ resp.op = "idle"
    /\ IF ~CanRead \/ ~IsProductActive(product_id)
       THEN /\ resp' = [op |-> "product_page", id |-> user_id, product_id |-> product_id,
                        alpha |-> None, status |-> IF ~CanRead THEN "raise" ELSE "404",
                        out |-> None, engine |-> None, hit |-> FALSE, degraded |-> FALSE]
            /\ UNCHANGED <<_cache, _timestamps, dbUp>>
       ELSE /\ ProductDetailFinish(
                    get_product_page_recommendations(CacheState, ~lost, product_id, user_id),
                    product_id, user_id)
            /\ dbUp' = ~lost
    /\ UNCHANGED <<products, purchases, now, threads, missed>>

InitHome ==
    /\ products \in ProductTables
    /\ purchases \in {<<>>, ScenarioLog}
    /\ dbUp = TRUE
    /\ _cache = <<>>
    /\ _timestamps = <<>>
    /\ now = 0
    /\ resp = Idle
    /\ threads = <<>>
    /\ missed = <<>>

NextHome ==
    \/ \E u \in Visitors, a \in {None} \cup {Some(x) : x \in Alphas}, h \in HashOrders :
            get_homepage(u, a, h)
    \/ \E p \in ProductIds, lost \in BOOLEAN : get_product_detail(p, 1, lost)
    \/ Respond
    \/ StoreFails
    \/ StoreRecovers

SpecHome == InitHome /\ [][NextHome]_vars

\* ----------------------------------------------------- properties: ranker
HasPurchased(u, p) == <<u, p>> \in PurchaseGroups

HasHistory(u) == \E p \in ProductIds : HasPurchased(u, p)

IsActive(p) == \E i \in 1..Len(products) : products[i].id = p /\ products[i].is_active

\* C1: for a buyer with purchase history, get_collaborative_recommendations
\* returns no product the buyer has already purchased, on every path of the
\* operation, the popularity fallback included.
C1_CollaborativeNeverReturnsPurchased ==
    (resp.op = "cf" /\ HasHistory(resp.id)) =>
        \A i \in 1..Len(resp.out) : ~HasPurchased(resp.id, resp.out[i])

\* C2: for an active product p and a limit >= 0, the result of
\* get_content_based_recommendations(p, limit) does not contain p and has at
\* most limit elements.
C2_ContentBasedExcludesAnchor ==
    (resp.op = "cbf" /\ IsActive(resp.id)) =>
        /\ \A i \in 1..Len(resp.out) : resp.out[i] # resp.id
        /\ Len(resp.out) <= resp.limit

C2_Witness ==
    /\ resp.op = "cbf"
    /\ IsActive(resp.id)
    /\ resp.limit > 0
    /\ Len(resp.out) = resp.limit
    /\ Len(FetchActiveProducts) > resp.limit + 1

\* C6: with alpha = 1.0 the ordered id sequence of get_hybrid_recommendations
\* equals the one get_collaborative_recommendations returns for the same
\* buyer and limit on the same store and the same cached CF artifact.
C6_HybridAlphaOneEqualsCollaborative ==
    (resp.op = "hybrid" /\ resp.alpha = AlphaOne) =>
        resp.out = get_collaborative_recommendations(CacheState, resp.id, resp.limit).out

\* C7: with alpha = 0.0 the blended score of every candidate equals the
\* candidate's CBF seed score (0 when only the CF list produced it), so it
\* does not depend on the CF list or on a CF position.
C7_AlphaZeroScoreIsCbfScore ==
    (resp.op = "hybrid" /\ resp.alpha = 0) =>
        \A pid \in DOMAIN resp.dbg.blended :
            resp.dbg.blended[pid] * CandidateLimit =
                (IF pid \in DOMAIN resp.dbg.cbf_scores THEN resp.dbg.cbf_scores[pid] ELSE 0)
                    * BlendDen(CfDen(resp.dbg.cf_list))

C7_Witness ==
    /\ resp.op = "hybrid"
    /\ resp.alpha = 0
    /\ \E pid \in DOMAIN resp.dbg.cf_rank : pid \notin DOMAIN resp.dbg.cbf_scores
    /\ \E pid \in DOMAIN resp.dbg.cf_rank : pid \in DOMAIN resp.dbg.cbf_scores

\* C8: a buyer without a row in the interaction matrix (no purchase event at
\* all, or none of this buyer) gets from get_collaborative_recommendations
\* exactly the sequence get_popular_products returns for the same limit.
C8_ColdStartIsPopular ==
    (resp.op = "cf" /\ ~HasHistory(resp.id)) =>
        /\ resp.status = "ok"
        /\ resp.out = get_popular_products(resp.limit)

C8_Witness ==
    /\ resp.op = "cf"
    /\ ~HasHistory(resp.id)
    /\ purchases # <<>>
    /\ resp.limit > 0
    /\ Len(resp.out) = resp.limit

\* C10: hydration preserves rank order: the i-th returned record has the
\* i-th id of the ranked id list computed before the product lookup.
C10_HydrationPreservesRankOrder ==
    (resp.op \in {"cbf", "cf", "hybrid"} /\ resp.path = "ranked") => resp.out = resp.ranked

\* --------------------------------------------------- properties: outages
\* C5: no ranker entry point surfaces a store failure: whichever read of the
\* store fails, the operation returns a sequence instead of raising, so the
\* endpoint never answers with HTTP 500.
C5_NoStoreFailureSurfaces ==
    resp.op \in {"cbf", "cf", "hybrid"} => resp.status = "ok"

\* -------------------------------------------------- properties: builders
Warm(key) ==
    /\ key \in DOMAIN _cache
    /\ key \in DOMAIN _timestamps => ~Expired(_timestamps[key], now)

WarmCallIsIdempotent(key) ==
    /\ resp'.data = Some(_cache[key])
    /\ resp'.reads = 0
    /\ resp'.writes = 0
    /\ _cache' = _cache
    /\ _timestamps' = _timestamps
    /\ (resp.op = resp'.op /\ resp.data # None) =>
            (resp'.data = resp.data /\ resp'.ranked = resp.ranked)

\* C9: a builder called on a warm cache (artifact cached and not expired)
\* returns the cached artifact, identical to what its previous call returned,
\* reads nothing from the store, writes nothing to the cache, and the ranking
\* derived from the artifact is the same on both calls.
C9_WarmBuildIsIdempotent ==
    [][/\ (build_cbf_call /\ Warm(_cbf_cache_key)) => WarmCallIsIdempotent(_cbf_cache_key)
       /\ (build_cf_call /\ Warm(_cf_cache_key)) => WarmCallIsIdempotent(_cf_cache_key)]_vars

C9_Witness ==
    /\ resp.op = "build_cbf"
    /\ resp.data # None
    /\ resp.reads = 0
    /\ Len(resp.ranked) > 1
    /\ now > 0

\* the candidates of a blend by score descending, equal scores by id
\* ascending, cut to limit
ByScoreThenId(blended, limit) ==
    Take(SortDescStable(Ascending(DOMAIN blended), blended), limit)

\* C14: the ids returned by get_hybrid_recommendations are the limit
\* candidates of the union with the highest blended scores, in descending
\* order of score, equal scores by id ascending, whatever the iteration
\* order of the candidate set.
C14_HybridOrderedByScoreThenId ==
    (resp.op = "hybrid" /\ resp.status = "ok" /\ resp.path = "ranked") =>
        resp.out = ByScoreThenId(resp.dbg.blended, resp.limit)

\* C15: the candidate set of a hybrid call is exactly the union of the ids
\* the collaborative call returned and the ids the content-based calls on
\* the seeds returned, none dropped, and the blended score of each is
\* alpha * cf_score + (1 - alpha) * cbf_score with a missing score as 0.
C15_HybridBlendsTheUnion ==
    (resp.op = "hybrid" /\ resp.status = "ok") =>
        LET d == resp.dbg
            cfIds == Range(get_collaborative_recommendations(
                                CacheState, resp.id, CandidateLimit).out)
            cbfIds == UNION {Range(get_content_based_recommendations(
                                CacheState, d.seeds[i], CandidateLimit).out) :
                             i \in DOMAIN d.seeds}
            cfDen == CfDen(d.cf_list)
        IN /\ DOMAIN d.blended = cfIds \cup cbfIds
           /\ \A pid \in cfIds \cup cbfIds :
                d.blended[pid] =
                    resp.alpha * (IF pid \in cfIds THEN d.cf_rank[pid] ELSE 0) * CandidateLimit
                    + (AlphaOne - resp.alpha)
                        * (IF pid \in cbfIds THEN d.cbf_scores[pid] ELSE 0) * cfDen

\* a blend with a candidate of the CF list alone and one of the seeds alone
C15_Witness ==
    /\ resp.op = "hybrid"
    /\ resp.status = "ok"
    /\ resp.alpha \notin {0, AlphaOne}
    /\ \E pid \in DOMAIN resp.dbg.blended :
            pid \in DOMAIN resp.dbg.cf_rank /\ pid \notin DOMAIN resp.dbg.cbf_scores
    /\ \E pid \in DOMAIN resp.dbg.blended :
            pid \notin DOMAIN resp.dbg.cf_rank /\ pid \in DOMAIN resp.dbg.cbf_scores

\* C16: in a hybrid call the CF candidate at 0-based position i of the
\* collaborative ranking (descending CF score) of the N returned candidates
\* gets the CF rank score (N - i) / N.
C16_CfRankScoreFollowsRanking ==
    (resp.op = "hybrid" /\ resp.status = "ok" /\ resp.dbg.cf_path = "ranked") =>
        LET ranking == get_collaborative_recommendations(
                            CacheState, resp.id, CandidateLimit).ranked
            N == Len(ranking)
        IN /\ CfDen(resp.dbg.cf_list) = N
           /\ \A i \in 1..N : resp.dbg.cf_rank[ranking[i]] = N - (i - 1)

\* a sequence without its repeated elements, the first occurrence kept
RECURSIVE Dedup(_)
Dedup(s) ==
    IF s = <<>> THEN <<>>
    ELSE <<Head(s)>> \o Dedup(SelectSeq(Tail(s), LAMBDA x : x # Head(s)))

\* the products a buyer purchased, most recent purchase first, each once
RecentDistinctProducts(uid) ==
    LET mine == Reverse(SelectSeq(purchases, LAMBDA e : e.user_id = uid))
    IN Dedup([i \in 1..Len(mine) |-> mine[i].product_id])

\* C17: the seed list of a hybrid call holds the buyer's SeedLimit most
\* recently purchased distinct products (all of them when there are fewer),
\* and no product id twice.
C17_SeedsAreDistinctRecent ==
    (resp.op = "hybrid" /\ resp.status = "ok") =>
        resp.dbg.seeds = Take(RecentDistinctProducts(resp.id), SeedLimit)

\* the CBF seed score of candidate c from the similarity ranks: the largest
\* CandidateLimit - r over the seeds whose content-based ranking holds c at
\* 0-based position r (a numerator over CandidateLimit)
SeedScoreByRank(seeds, c) ==
    LET ranking(i) == get_content_based_recommendations(
                            CacheState, seeds[i], CandidateLimit).ranked
        vals == {CandidateLimit - (r - 1) :
                    r \in UNION {{k \in 1..Len(ranking(i)) : ranking(i)[k] = c} :
                                    i \in DOMAIN seeds}}
    IN CHOOSE m \in vals : \A v \in vals : v <= m

\* C18: the CBF score used in blending is, for every candidate, the maximum
\* over the seeds whose content-based list holds it of (50 - r) / 50, r
\* being its 0-based similarity rank in that seed's list.
C18_CbfSeedScoreIsMaxOverSeeds ==
    (resp.op = "hybrid" /\ resp.status = "ok") =>
        \A c \in DOMAIN resp.dbg.cbf_scores :
            resp.dbg.cbf_scores[c] = SeedScoreByRank(resp.dbg.seeds, c)

\* C19: when the union of the CF and the CBF candidate ids is empty, a hybrid
\* call returns exactly get_popular_products(limit).
C19_EmptyUnionIsPopular ==
    (resp.op = "hybrid" /\ resp.status = "ok" /\ DOMAIN resp.dbg.blended = {}) =>
        /\ resp.path = "popular"
        /\ resp.out = get_popular_products(resp.limit)

\* an empty union for a buyer with a seed, and a limit above 0
C19_Witness ==
    /\ resp.op = "hybrid"
    /\ resp.status = "ok"
    /\ DOMAIN resp.dbg.blended = {}
    /\ resp.dbg.seeds # <<>>
    /\ resp.limit > 0
    /\ resp.path = "popular"

\* C20: the ids chosen by get_content_based_recommendations are the limit
\* products with the highest similarity to the anchor, equal similarities
\* ordered by catalog id ascending, whatever the order in which the store
\* returned the active products when the matrix was built.
C20_ContentBasedTiesByIdAscending ==
    (resp.op = "cbf" /\ resp.status = "ok" /\ resp.path = "ranked") =>
        LET df == CbfArtifact(FetchActiveProducts).df
            idx == CHOOSE k \in 1..Len(df) : df[k].id = resp.id
            scores == CbfScores(df, idx)
        IN resp.ranked = ByScoreThenId(Restrict(scores, DOMAIN scores \ {resp.id}), resp.limit)

\* C21: for a buyer with a row in the interaction matrix the ids selected by
\* get_collaborative_recommendations are the limit items with the highest
\* score among the items with a finite score, equal scores ordered by id
\* ascending.
C21_CollaborativeTiesByIdAscending ==
    (resp.op = "cf" /\ resp.status = "ok" /\ resp.path = "ranked") =>
        LET scores == CfScores(CfArtifact, resp.id)
            finite == {j \in DOMAIN scores : scores[j] # NegInf}
        IN resp.ranked = ByScoreThenId(Restrict(scores, finite), resp.limit)

\* C22: get_content_based_recommendations returns the empty sequence, without
\* raising and without writing to the cache, when there are zero active
\* products or when the anchor has no row in the term-vector matrix.
C22_UnknownAnchorIsASignal ==
    (resp.op = "cbf" /\ ~IsActive(resp.id)) =>
        /\ resp.status = "ok"
        /\ resp.out = <<>>
        /\ resp.writes = 0

\* C24: cache map consistency: whenever no call of SimpleCache is under way,
\* the value map and the expiry metadata have the same keys, under every
\* interleaving of get, set, delete, clear and cleanup_expired; no value is
\* stored without expiry metadata and none is left behind by a removal.
C24_CacheMapsHaveTheSameKeys ==
    (\A t \in Threads : threads[t].pc = "idle") => DOMAIN _cache = DOMAIN _timestamps

\* the entry of key is within its TTL on the clock reading t0
FreshAt(key, t0) ==
    /\ key \in DOMAIN _timestamps
    /\ ~(t0 - _timestamps[key].created > _timestamps[key].ttl)

\* C27: expiry does not destroy a fresh entry: a get(k) that decided to evict
\* the expired entry of k removes nothing of k from either map once a later
\* set(k, v2, ttl) has written an entry that is within its TTL.
C27_ExpiryKeepsAFreshEntry ==
    [][\A t \in Threads :
        (threads[t].caller = "get" /\ FreshAt(threads[t].key, threads[t].t0)) =>
            /\ T_del_cache(t) => _cache' = _cache
            /\ T_del_ts(t) => _timestamps' = _timestamps]_vars

\* the artifact a single build computes from the present store
StoreArtifact(kind) ==
    IF kind = "cbf"
    THEN IF FetchActiveProducts = <<>> THEN None ELSE Some(CbfArtifact(FetchActiveProducts))
    ELSE IF purchases = <<>> THEN None ELSE Some(CfArtifact)

C25_NoStaleArtifactAfterClear ==
    resp.pc = "done" =>
        \A kind \in BuildKinds :
            BuildKey(kind) \in DOMAIN _cache =>
                Some(_cache[BuildKey(kind)]) = StoreArtifact(kind)

\* C28: for a buyer with purchase history, every limit and every alpha in
\* [0, 1], get_hybrid_recommendations returns no product the buyer has
\* already purchased, whether the product came from the CF candidates or from
\* the content-based candidates of the buyer's seed products.
C28_HybridNeverReturnsPurchased ==
    (resp.op = "hybrid" /\ resp.status = "ok" /\ HasHistory(resp.id)) =>
        \A i \in 1..Len(resp.out) : ~HasPurchased(resp.id, resp.out[i])

\* C29: no negative caching of artifacts: a call of _build_cbf_matrix or
\* _build_cf_item_similarity that returns empty leaves both cache maps as
\* they were, and a call made while the store holds data returns a non-empty
\* artifact, whatever earlier calls returned.
C29_NoNegativeCaching ==
    [][/\ build_cbf_call =>
            /\ resp'.data = None => (_cache' = _cache /\ _timestamps' = _timestamps)
            /\ FetchActiveProducts # <<>> => (resp'.data # None /\ resp'.data[1].df # <<>>)
       /\ build_cf_call =>
            /\ resp'.data = None => (_cache' = _cache /\ _timestamps' = _timestamps)
            /\ purchases # <<>> => (resp'.data # None /\ resp'.data[1].item_ids # <<>>)]_vars

\* a build returned empty from an empty table
C29_Witness ==
    /\ resp.op \in {"build_cbf", "build_cf"}
    /\ resp.status = "ok"
    /\ resp.data = None
    /\ resp.reads = 1
    /\ resp.writes = 0
    /\ _cache = <<>>
    /\ _timestamps = <<>>

\* C26: serving a request never changes a cached response: the response
\* stored under homepage_<user_id> keeps the personalized_recommendations that
\* get_personalized_recommendations computed for it, whatever requests are
\* served, and a request without hybrid_alpha that is served from the cache
\* returns that list.
C26_ServingKeepsTheCachedResponse ==
    /\ \A u \in Visitors :
          homepage_cache_key(u) \in DOMAIN _cache =>
              _cache[homepage_cache_key(u)].personalized_recommendations
                  = missed[homepage_cache_key(u)]
    /\ (resp.op = "homepage" /\ resp.alpha = None /\ resp.hit) =>
          resp.out[1].personalized_recommendations = missed[homepage_cache_key(resp.id)]

\* the cache key of the page that resp answers
PageKey ==
    IF resp.op = "homepage" THEN homepage_cache_key(resp.id)
    ELSE product_page_cache_key(resp.product_id, resp.id)

\* C30: degraded responses are not cached: a homepage or product page
\* response composed while a store read failed is not stored under the
\* page's cache key.
C30_DegradedResponseIsNotCached ==
    (resp.op \in {"homepage", "product_page"} /\ resp.degraded) =>
        PageKey \notin DOMAIN _cache

\* C13: every execution of the ingestion endpoint that commits a write to
\* products or purchase history calls cache.clear() before it responds, also
\* when a later step raises after the products step has committed.
C13_IngestionAlwaysClears ==
    [][(products' # products \/ purchases' # purchases) =>
            (_cache' = <<>> /\ _timestamps' = <<>>)]_vars

\* ------------------------------------------------ properties: SimpleCache
\* C3: after set(k, v, ttl) an immediate get(k) returns v; a get(k) at a
\* time with now - created > ttl returns miss; and once a get(k) has reported
\* the expiry, every later get(k) misses until a new set(k, ...), whatever
\* other cache calls come in between.
C3_RoundTripAndNoResurrection ==
    [][\A k \in CacheKeys :
        cache_get(k) =>
            /\ (resp.op = "set" /\ resp.key = k /\ resp.at = now) => resp'.ret = Some(resp.value)
            /\ (k \in DOMAIN _cache /\ k \in DOMAIN _timestamps /\ Expired(_timestamps[k], now))
                    => resp'.ret = None
            /\ k \in missed => resp'.ret = None]_vars

C3_Witness ==
    /\ resp.op = "get"
    /\ resp.again
    /\ resp.ret = None
    /\ \E k \in CacheKeys : k # resp.key /\ k \in DOMAIN _cache

\* C12: a get(k) with now - created > ttl returns miss and leaves k in
\* neither the value map nor the expiry metadata (and touches no other key);
\* a get(k) with now - created <= ttl returns the stored value and removes
\* nothing.
C12_ReadTriggeredExpiryEvicts ==
    [][\A k \in CacheKeys :
        (cache_get(k) /\ k \in DOMAIN _cache /\ k \in DOMAIN _timestamps) =>
            IF Expired(_timestamps[k], now)
            THEN /\ resp'.ret = None
                 /\ k \notin DOMAIN _cache'
                 /\ k \notin DOMAIN _timestamps'
                 /\ _cache' = Restrict(_cache, DOMAIN _cache \ {k})
                 /\ _timestamps' = Restrict(_timestamps, DOMAIN _timestamps \ {k})
            ELSE /\ resp'.ret = Some(_cache[k])
                 /\ _cache' = _cache
                 /\ _timestamps' = _timestamps]_vars

\* a get has just evicted its key while another entry stayed
C12_Witness ==
    /\ resp.op = "get"
    /\ resp.ret = None
    /\ ~resp.again
    /\ resp.key \in missed
    /\ resp.key \notin DOMAIN _cache
    /\ resp.key \notin DOMAIN _timestamps
    /\ _cache # <<>>

\* C11: sequential clear(): when clear() returns both the value map and the
\* expiry metadata are empty, whatever the TTLs of the entries and whether
\* or not they had expired, and a get(k) that follows misses for every key.
C11_SequentialClearDropsAll ==
    [][/\ resp'.op = "clear" => (_cache' = <<>> /\ _timestamps' = <<>>)
       /\ (resp.op = "clear" /\ resp'.op = "get") => resp'.ret = None]_vars

\* clear() has dropped an expired entry together with a live one
C11_Witness ==
    /\ resp.op = "clear"
    /\ resp.stale # {}
    /\ resp.dropped \ resp.stale # {}
    /\ _cache = <<>>
    /\ _timestamps = <<>>

\* a set(key, ...) is under way in some thread
SetInFlight(key) == \E t \in Threads : threads[t].op = "set" /\ threads[t].key = key

\* C4: clear() is atomic with respect to concurrent set(): once clear() has
\* returned, no entry (value or expiry metadata) survives of a key that was
\* set before clear() was issued or whose set() was performed while clear()
\* ran; only a set() still under way may leave one.
C4_ClearIsAtomic ==
    [][\A t \in Threads :
        T_clear_ts(t) =>
            \A k \in ThreadKeys :
                ~SetInFlight(k)' => (k \notin DOMAIN _cache' /\ k \notin DOMAIN _timestamps')]_vars

====
